---- MODULE Spec2Model ----
(***************************************************************************)
(* PointBin3D (src/src/pointbin.rs): a bucketed 3D index whose radius      *)
(* search consumes the points it matches until reset() restores the        *)
(* post-construction linked lists.                                         *)
(*                                                                         *)
(* Coordinates, bin widths and radii are f64 in the source.  Here they are *)
(* small integers, on which subtraction, division-then-floor, squaring and *)
(* comparison are exact; floating-point rounding is outside this model.    *)
(* Arrays keep the source's 0-based indexing: an array of length n is a    *)
(* function with domain 0..n-1.                                            *)
(*                                                                         *)
(* Inputs: every point matrix of at most MaxPoints rows over the           *)
(* coordinate cube, with one bin width on all axes, and every matrix of at *)
(* most MaxPointsMixed rows with any widths; every query of the cube with  *)
(* a radius of 0..MaxRadius (a non-negative radius and positive widths are *)
(* the documented preconditions).                                          *)
(*                                                                         *)
(* SpecShape adds the malformed shapes: matrices of 2 and 4 columns, 2 and *)
(* 4 bin widths, and queries of 2 and 4 entries, on at most MaxPointsShape *)
(* rows.  SpecPair runs a second instance, built from the same rows in     *)
(* another order, through the same searches.                               *)
(***************************************************************************)
EXTENDS Integers, Sequences, FiniteSets, TLC

\* Bounds of the model.
MaxPoints == 3      \* at most this many rows in the point matrix
MaxPointsMixed == 2 \* at most this many rows when the bin widths differ between axes
MaxCoord == 1       \* coordinates range over 0..MaxCoord on every axis
MaxWidth == 2       \* bin widths range over 1..MaxWidth on every axis
MaxRadius == 1      \* radii range over 0..MaxRadius

\* Sentinels of the linked lists.
EMPTY == 0 - 1      \* end of chain / empty bin
REMOVED == 0 - 2    \* tombstone of a matched point

Axes == 0 .. 2
Coords == 0 .. MaxCoord
Widths == 1 .. MaxWidth
Radii == 0 .. MaxRadius

Vec(len, S) == [0 .. len - 1 -> S]
Matrix(n, c, S) == [0 .. n - 1 -> Vec(c, S)]

Len0(a) == Cardinality(DOMAIN a)

\* The function f as a stored array: @@ evaluates every entry once, where
\* TLC would otherwise re-evaluate the expression of f at each read.
Array(f) == f @@ f

VARIABLES
    status,                 \* "Unbuilt" | "Ready" | "Panicked"
    op,                     \* the last call: "none" | "new" | "search" | "reset"
    ncols,                  \* original_points.ncols()
    original_points,
    points,
    bin_widths,
    origin,
    original_indices,
    bin_shape,
    first_member,
    next_member,
    original_first_member,
    original_next_member,
    found_indices_buffer,
    found_count,
    covered,                \* history: original indices inside some query ball since the last reset
    twin                    \* a second instance, built from the same rows in another order

fixed == <<ncols, original_points, points, bin_widths, origin, original_indices,
           bin_shape, original_first_member, original_next_member>>
session == <<first_member, next_member, found_indices_buffer, found_count>>
vars == <<status, op, fixed, session, covered, twin>>

----------------------------------------------------------------------------
(* utils.rs *)

\* arr.row(0) panics on a matrix without rows.
row0_panics(arr) == Len0(arr) = 0

\* The loop over arr.rows() of min_along_axis0, from row k on.
RECURSIVE min_rows(_, _, _)
min_rows(arr, k, out) ==
    IF k >= Len0(arr) THEN out
    ELSE min_rows(arr, k + 1,
                  Array([j \in DOMAIN out |-> IF arr[k][j] < out[j] THEN arr[k][j] ELSE out[j]]))

\* The first row taken for the minimum: the loop over the rows left out.
min_along_axis0_first(arr) == arr[0]

min_along_axis0(arr) == min_rows(arr, 0, arr[0])

\* The loop over arr.rows() of max_along_axis0_i64, from row k on.
RECURSIVE max_rows(_, _, _)
max_rows(arr, k, out) ==
    IF k >= Len0(arr) THEN out
    ELSE max_rows(arr, k + 1,
                  Array([j \in DOMAIN out |-> IF arr[k][j] > out[j] THEN arr[k][j] ELSE out[j]]))

\* The first row taken for the maximum: the loop over the rows left out.
max_along_axis0_first(arr) == arr[0]

max_along_axis0_i64(arr) == max_rows(arr, 0, arr[0])

----------------------------------------------------------------------------
(* PointBin3D::new *)

\* floor((coord - origin) / width); \div is the floor division.
bin_coord(coord, org, width) == (coord - org) \div width

bin_indices_of(pts, org, widths) ==
    Array([i \in DOMAIN pts |-> Array([j \in Axes |-> bin_coord(pts[i][j], org[j], widths[j])])])

bin_key(b, shape) == b[0] * shape[1] * shape[2] + b[1] * shape[2] + b[2]

\* keys.sort_by_key: a stable sort, modelled as insertion of the keys in input
\* order, each after every entry whose key is not larger.
RECURSIVE insert_stable(_, _), insert_before_equal(_, _)
\* An insertion that puts the new entry before the entries of equal key.
insert_before_equal(sorted, e) ==
    IF sorted = <<>> THEN <<e>>
    ELSE IF sorted[Len(sorted)][1] < e[1] THEN Append(sorted, e)
    ELSE Append(insert_before_equal(SubSeq(sorted, 1, Len(sorted) - 1), e),
                sorted[Len(sorted)])

insert_stable(sorted, e) ==
    IF sorted = <<>> THEN <<e>>
    ELSE IF sorted[Len(sorted)][1] <= e[1] THEN Append(sorted, e)
    ELSE Append(insert_stable(SubSeq(sorted, 1, Len(sorted) - 1), e), sorted[Len(sorted)])

RECURSIVE sort_by_key(_, _, _)
sort_by_key(keys, k, acc) ==
    IF k >= Len0(keys) THEN acc
    ELSE sort_by_key(keys, k + 1, insert_stable(acc, keys[k]))

\* sort_order[new_idx] = index of the input row placed at new_idx.
sort_order_of(bidx, shape) ==
    LET keys == Array([i \in DOMAIN bidx |-> <<bin_key(bidx[i], shape), i>>])
        srt == sort_by_key(keys, 0, <<>>)
    IN Array([k \in 0 .. Len(srt) - 1 |-> srt[k + 1][2]])

Bins(shape) == (0 .. shape[0] - 1) \X (0 .. shape[1] - 1) \X (0 .. shape[2] - 1)

\* The prepend loop that builds the chains, from sorted index k on.  Indexing
\* first_member outside the grid panics.
RECURSIVE build_lists(_, _, _, _), build_lists_backwards(_, _, _, _)
\* The prepend loop run over the sorted indices from the last down to the first.
build_lists_backwards(k, order, bidx, ll) ==
    IF ll.panic \/ k >= Len0(order) THEN ll
    ELSE LET m == Len0(order) - 1 - k
             b == bidx[order[m]]
             bin == <<b[0], b[1], b[2]>>
         IN IF bin \notin DOMAIN ll.first THEN [ll EXCEPT !.panic = TRUE]
            ELSE build_lists_backwards(k + 1, order, bidx,
                     [first |-> [ll.first EXCEPT ![bin] = m],
                      next |-> [ll.next EXCEPT ![m] = ll.first[bin]],
                      panic |-> FALSE])

build_lists(k, order, bidx, ll) ==
    IF ll.panic \/ k >= Len0(order) THEN ll
    ELSE LET b == bidx[order[k]]
             bin == <<b[0], b[1], b[2]>>
         IN IF bin \notin DOMAIN ll.first THEN [ll EXCEPT !.panic = TRUE]
            ELSE build_lists(k + 1, order, bidx,
                     [first |-> [ll.first EXCEPT ![bin] = k],
                      next |-> [ll.next EXCEPT ![k] = ll.first[bin]],
                      panic |-> FALSE])

\* The map stored the other way round: original_indices[orig_idx] = new_idx.
original_indices_inverse(order) ==
    Array([r \in DOMAIN order |-> CHOOSE k \in DOMAIN order : order[k] = r])

\* Lines 83-89: original_indices[new_idx] = orig_idx.
original_indices_of(order) == order

\* Shape checks that let a matrix with more than 3 columns through.
new_panics_min_cols(pts, c, widths) ==
    \/ c < 3
    \/ Len0(widths) # 3
    \/ row0_panics(pts)

\* new() panics on a wrong shape (the two assert_eq!) and on a matrix
\* without rows (row(0) in min_along_axis0).
new_panics(pts, c, widths) ==
    \/ c # 3
    \/ Len0(widths) # 3
    \/ row0_panics(pts)

new_fields(pts, widths) ==
    LET n == Len0(pts)
        org == min_along_axis0(pts)
        bidx == bin_indices_of(pts, org, widths)
        shape == Array([j \in Axes |-> max_along_axis0_i64(bidx)[j] + 1])
        order == sort_order_of(bidx, shape)
        ll == build_lists(0, order, bidx,
                          [first |-> Array([b \in Bins(shape) |-> EMPTY]),
                           next |-> Array([i \in 0 .. n - 1 |-> EMPTY]),
                           panic |-> FALSE])
    IN [original_points |-> pts,
        points |-> Array([k \in 0 .. n - 1 |-> pts[order[k]]]),
        bin_widths |-> widths,
        origin |-> org,
        original_indices |-> original_indices_of(order),
        bin_shape |-> shape,
        first_member |-> ll.first,
        next_member |-> ll.next,
        original_first_member |-> ll.first,
        original_next_member |-> ll.next,
        found_indices_buffer |-> Array([i \in 0 .. n - 1 |-> EMPTY]),
        found_count |-> 0,
        panic |-> ll.panic,
        tested |-> <<>>]

----------------------------------------------------------------------------
(* PointBin3D::radius_search *)

\* The instance, as one value.  tested is not a field of the struct: it logs
\* the sorted indices the current call has distance-tested, in order.
Self == [original_points |-> original_points,
         points |-> points,
         bin_widths |-> bin_widths,
         origin |-> origin,
         original_indices |-> original_indices,
         bin_shape |-> bin_shape,
         first_member |-> first_member,
         next_member |-> next_member,
         original_first_member |-> original_first_member,
         original_next_member |-> original_next_member,
         found_indices_buffer |-> found_indices_buffer,
         found_count |-> found_count,
         panic |-> FALSE,
         tested |-> <<>>]

dist_sq(p, q) ==
    (p[0] - q[0]) * (p[0] - q[0]) + (p[1] - q[1]) * (p[1] - q[1]) + (p[2] - q[2]) * (p[2] - q[2])

\* An exclusive test.
is_match_strict(d, radius_sq) == d < radius_sq

\* The test of line 186.
is_match(d, radius_sq) == d <= radius_sq

clamp_min(b) == IF b > 0 THEN b ELSE 0

\* A clamp of the upper bin coordinate into the grid from both sides.
clamp_max_into_grid(b, shape_j) ==
    IF b < 0 THEN 0 ELSE IF b > shape_j - 1 THEN shape_j - 1 ELSE b

clamp_max(b, shape_j) == IF b < shape_j - 1 THEN b ELSE shape_j - 1

min_bin_of(st, q, radius) ==
    Array([j \in Axes |-> clamp_min(bin_coord(q[j] - radius, st.origin[j], st.bin_widths[j]))])

\* The upper corner taken at the query itself, the radius forgotten.
max_bin_no_radius(st, q, radius) ==
    Array([j \in Axes |-> clamp_max(bin_coord(q[j], st.origin[j], st.bin_widths[j]),
                                    st.bin_shape[j])])

max_bin_of(st, q, radius) ==
    Array([j \in Axes |-> clamp_max(bin_coord(q[j] + radius, st.origin[j], st.bin_widths[j]),
                                    st.bin_shape[j])])

\* An unlink whose writes also land in the snapshot: the snapshot arrays share
\* their storage with the live ones.
unlink_aliased(st, bin, prev, next_i) ==
    IF prev = EMPTY
    THEN [st EXCEPT !.first_member[bin] = next_i, !.original_first_member[bin] = next_i]
    ELSE [st EXCEPT !.next_member[prev] = next_i, !.original_next_member[prev] = next_i]

\* An unlink that cuts the chain after the cursor instead of bridging over
\* the removed node.
unlink_drops_tail(st, bin, prev, next_i) ==
    IF prev = EMPTY
    THEN [st EXCEPT !.first_member[bin] = next_i]
    ELSE [st EXCEPT !.next_member[prev] = EMPTY]

\* An unlink that forgets the head: removing the first node of a chain
\* changes nothing.
unlink_prev_only(st, bin, prev, next_i) ==
    IF prev = EMPTY THEN st
    ELSE [st EXCEPT !.next_member[prev] = next_i]

\* An unlink that always rewrites the head of the bin.
unlink_head_always(st, bin, prev, next_i) ==
    [st EXCEPT !.first_member[bin] = next_i]

\* An unlink that leaves the chain as it is.
unlink_skipped(st, bin, prev, next_i) == st

\* Lines 188-192: take node i, whose successor is next_i, out of the chain of bin.
unlink(st, bin, prev, next_i) ==
    IF prev = EMPTY
    THEN [st EXCEPT !.first_member[bin] = next_i]
    ELSE [st EXCEPT !.next_member[prev] = next_i]

\* A record_found that leaves the next link of the match as it was.
record_found_no_tombstone(st, i) ==
    IF st.found_count \notin DOMAIN st.found_indices_buffer
    THEN [st EXCEPT !.panic = TRUE]
    ELSE [st EXCEPT !.found_indices_buffer[st.found_count] = i,
                    !.found_count = st.found_count + 1]

\* A record_found that puts the newest match first and shifts the older ones.
record_found_front(st, i) ==
    IF st.found_count \notin DOMAIN st.found_indices_buffer
    THEN [st EXCEPT !.next_member[i] = REMOVED, !.panic = TRUE]
    ELSE [st EXCEPT !.next_member[i] = REMOVED,
                    !.found_indices_buffer =
                        Array([k \in DOMAIN st.found_indices_buffer |->
                                  IF k = 0 THEN i
                                  ELSE IF k <= st.found_count THEN st.found_indices_buffer[k - 1]
                                  ELSE st.found_indices_buffer[k]]),
                    !.found_count = st.found_count + 1]

\* Lines 194-196: tombstone, append to the result buffer, count.  The write
\* at found_count panics when found_count is not an index of the buffer.
record_found(st, i) ==
    IF st.found_count \notin DOMAIN st.found_indices_buffer
    THEN [st EXCEPT !.next_member[i] = REMOVED, !.panic = TRUE]
    ELSE [st EXCEPT !.next_member[i] = REMOVED,
                    !.found_indices_buffer[st.found_count] = i,
                    !.found_count = st.found_count + 1]

\* A cursor that also moves past a removed node.
next_prev_always(prev, i, matched) == i

\* The cursor after node i was tested (line 198: prev moves only past a retained node).
next_prev(prev, i, matched) == IF matched THEN prev ELSE i

RECURSIVE walk_chain(_, _, _, _, _), walk_chain_first_match(_, _, _, _, _)
\* A walk that leaves the chain at its first match.
walk_chain_first_match(st, c, bin, prev, i) ==
    IF st.panic \/ i = EMPTY THEN st
    ELSE IF i \notin DOMAIN st.next_member THEN [st EXCEPT !.panic = TRUE]
    ELSE LET next_i == st.next_member[i]
             matched == is_match(dist_sq(st.points[i], c.q), c.radius_sq)
             st1 == [st EXCEPT !.tested = Append(@, i)]
         IN IF matched THEN record_found(unlink(st1, bin, prev, next_i), i)
            ELSE walk_chain_first_match(st1, c, bin, i, next_i)

\* The while loop of lines 176-201, at node i with cursor prev.  Reading
\* next_member at an index outside the array panics.
walk_chain(st, c, bin, prev, i) ==
    IF st.panic \/ i = EMPTY THEN st
    ELSE IF i \notin DOMAIN st.next_member THEN [st EXCEPT !.panic = TRUE]
    ELSE LET next_i == st.next_member[i]
             matched == is_match(dist_sq(st.points[i], c.q), c.radius_sq)
             st1 == [st EXCEPT !.tested = Append(@, i)]
             st2 == IF matched THEN record_found(unlink(st1, bin, prev, next_i), i) ELSE st1
         IN walk_chain(st2, c, bin, next_prev(prev, i, matched), next_i)

RECURSIVE search_z(_, _, _, _, _), search_z_twice(_, _, _, _, _)
\* The inner loop with the chain of every bin walked twice.
search_z_twice(st, c, ix, iy, iz) ==
    IF st.panic \/ iz > c.max_bin[2] THEN st
    ELSE \* the second walk starts at the head the first walk left
         LET once == walk_chain(st, c, <<ix, iy, iz>>, EMPTY, st.first_member[<<ix, iy, iz>>])
         IN search_z_twice(walk_chain(once, c, <<ix, iy, iz>>, EMPTY,
                                      once.first_member[<<ix, iy, iz>>]),
                           c, ix, iy, iz + 1)

\* The loop over iz of line 171.
search_z(st, c, ix, iy, iz) ==
    IF st.panic \/ iz > c.max_bin[2] THEN st
    ELSE search_z(walk_chain(st, c, <<ix, iy, iz>>, EMPTY, st.first_member[<<ix, iy, iz>>]),
                  c, ix, iy, iz + 1)

RECURSIVE search_y(_, _, _, _)
search_y(st, c, ix, iy) ==
    IF st.panic \/ iy > c.max_bin[1] THEN st
    ELSE search_y(search_z(st, c, ix, iy, c.min_bin[2]), c, ix, iy + 1)

RECURSIVE search_x(_, _, _), search_x_desc(_, _, _)
\* The outer loop run from the last slab of bins down to the first.
search_x_desc(st, c, ix) ==
    IF st.panic \/ ix > c.max_bin[0] THEN st
    ELSE search_x_desc(search_y(st, c, c.min_bin[0] + c.max_bin[0] - ix, c.min_bin[1]),
                       c, ix + 1)

\* The loop over ix of line 169.
search_x(st, c, ix) ==
    IF st.panic \/ ix > c.max_bin[0] THEN st
    ELSE search_x(search_y(st, c, ix, c.min_bin[1]), c, ix + 1)

\* A check that only rejects a query that is too short.
query_panics_short(q) == Len0(q) < 3

\* The assert_eq! of line 146.
query_panics(q) == Len0(q) # 3

\* radius_search on the instance st: the instance after the call.
radius_search(st, q, radius) ==
    IF query_panics(q) THEN [st EXCEPT !.panic = TRUE]
    ELSE LET c == [q |-> q,
                   radius_sq |-> radius * radius,
                   min_bin |-> min_bin_of(st, q, radius),
                   max_bin |-> max_bin_of(st, q, radius)]
         IN search_x([st EXCEPT !.tested = <<>>], c, c.min_bin[0])

----------------------------------------------------------------------------
(* found_indices, found_count, reset *)

\* The sequence found_indices() returns on the instance st.
found_indices(st) ==
    [k \in 1 .. st.found_count |-> st.original_indices[st.found_indices_buffer[k - 1]]]

\* A reset that exchanges the live lists with the snapshot instead of copying it.
reset_swap(st) ==
    [st EXCEPT !.first_member = st.original_first_member,
               !.next_member = st.original_next_member,
               !.original_first_member = st.first_member,
               !.original_next_member = st.next_member,
               !.found_count = 0]

\* A reset that restores the heads and leaves next_member as it is.
reset_heads_only(st) ==
    [st EXCEPT !.first_member = st.original_first_member,
               !.found_count = 0]

\* A reset that restores the lists and keeps the count.
reset_keeps_count(st) ==
    [st EXCEPT !.first_member = st.original_first_member,
               !.next_member = st.original_next_member]

reset(st) ==
    [st EXCEPT !.first_member = st.original_first_member,
               !.next_member = st.original_next_member,
               !.found_count = 0]

----------------------------------------------------------------------------
(* The calls a client can make *)

Queries == Vec(3, Coords)

\* Original indices of the points within distance radius of q.
InBall(q, radius) ==
    {i \in DOMAIN original_points : dist_sq(original_points[i], q) <= radius * radius}

\* The arguments of new(), before the call: a matrix of c columns and at most
\* n rows, and a vector of w bin widths.
Args(n, c, w) ==
    /\ status = "Unbuilt"
    /\ op = "none"
    /\ ncols = c
    /\ \E k \in 0 .. n : original_points \in Matrix(k, c, Coords)
    /\ bin_widths \in Vec(w, Widths)
    /\ points = <<>>
    /\ origin = <<>>
    /\ original_indices = <<>>
    /\ bin_shape = <<>>
    /\ first_member = <<>>
    /\ next_member = <<>>
    /\ original_first_member = <<>>
    /\ original_next_member = <<>>
    /\ found_indices_buffer = <<>>
    /\ found_count = 0
    /\ covered = {}

\* The larger matrices come with one bin width for all axes.
FewOrUniform ==
    \/ Len0(original_points) <= MaxPointsMixed
    \/ \A j \in DOMAIN bin_widths : bin_widths[j] = bin_widths[0]

Init ==
    /\ Args(MaxPoints, 3, 3)
    /\ FewOrUniform
    /\ twin = <<>>

\* The rows of pts in the order p: row k is row p[k] of pts.
permuted(pts, p) == Array([k \in DOMAIN pts |-> pts[p[k]]])

\* new() of the twin, on the permuted rows and the same bin widths.
twin_new ==
    IF twin = <<>> THEN twin
    ELSE [twin EXCEPT !.inst =
             IF new_panics(original_points, ncols, bin_widths) THEN [panic |-> TRUE]
             ELSE new_fields(permuted(original_points, twin.perm), bin_widths)]

\* The same radius_search on the twin.
twin_search(q, radius) ==
    IF twin = <<>> \/ twin.inst.panic THEN twin
    ELSE [twin EXCEPT !.inst = [radius_search(@, q, radius) EXCEPT !.tested = <<>>]]

\* The same reset on the twin.
twin_reset ==
    IF twin = <<>> \/ twin.inst.panic THEN twin
    ELSE [twin EXCEPT !.inst = reset(@)]

New ==
    /\ status = "Unbuilt"
    /\ op' = "new"
    /\ twin' = twin_new
    /\ UNCHANGED <<ncols, covered>>
    /\ IF new_panics(original_points, ncols, bin_widths)
       THEN /\ status' = "Panicked"
            /\ UNCHANGED <<original_points, bin_widths, points, origin, original_indices,
                           bin_shape, original_first_member, original_next_member, session>>
       ELSE \E f \in {new_fields(original_points, bin_widths)} :
            IF f.panic
            THEN /\ status' = "Panicked"
                 /\ UNCHANGED <<original_points, bin_widths, points, origin,
                                original_indices, bin_shape, original_first_member,
                                original_next_member, session>>
            ELSE /\ status' = "Ready"
                 /\ original_points' = f.original_points
                 /\ points' = f.points
                 /\ bin_widths' = f.bin_widths
                 /\ origin' = f.origin
                 /\ original_indices' = f.original_indices
                 /\ bin_shape' = f.bin_shape
                 /\ first_member' = f.first_member
                 /\ next_member' = f.next_member
                 /\ original_first_member' = f.original_first_member
                 /\ original_next_member' = f.original_next_member
                 /\ found_indices_buffer' = f.found_indices_buffer
                 /\ found_count' = f.found_count

RadiusSearch(q, radius) ==
    /\ status = "Ready"
    /\ op' = "search"
    /\ \E st \in {radius_search(Self, q, radius)} :
          /\ status' = IF st.panic THEN "Panicked" ELSE "Ready"
          /\ original_points' = st.original_points
          /\ points' = st.points
          /\ bin_widths' = st.bin_widths
          /\ origin' = st.origin
          /\ original_indices' = st.original_indices
          /\ bin_shape' = st.bin_shape
          /\ first_member' = st.first_member
          /\ next_member' = st.next_member
          /\ original_first_member' = st.original_first_member
          /\ original_next_member' = st.original_next_member
          /\ found_indices_buffer' = st.found_indices_buffer
          /\ found_count' = st.found_count
    /\ covered' = IF query_panics(q) THEN covered ELSE covered \cup InBall(q, radius)
    /\ twin' = twin_search(q, radius)
    /\ UNCHANGED ncols

Reset ==
    /\ status = "Ready"
    /\ op' = "reset"
    /\ \E st \in {reset(Self)} :
          /\ original_points' = st.original_points
          /\ points' = st.points
          /\ bin_widths' = st.bin_widths
          /\ origin' = st.origin
          /\ original_indices' = st.original_indices
          /\ bin_shape' = st.bin_shape
          /\ first_member' = st.first_member
          /\ next_member' = st.next_member
          /\ original_first_member' = st.original_first_member
          /\ original_next_member' = st.original_next_member
          /\ found_indices_buffer' = st.found_indices_buffer
          /\ found_count' = st.found_count
    /\ covered' = {}
    /\ twin' = twin_reset
    /\ UNCHANGED <<status, ncols>>

Next ==
    \/ New
    \/ \E q \in Queries, radius \in Radii : RadiusSearch(q, radius)
    \/ Reset

Spec == Init /\ [][Next]_vars

----------------------------------------------------------------------------
(* Vocabulary of the properties *)

Ready == status = "Ready"

NPoints == Len0(original_points)

\* The instance new() returns for the stored points and widths.
Constructed == new_fields(original_points, bin_widths)

Fresh == Constructed

\* The sorted indices met by following next from i, at most fuel of them.
RECURSIVE chain_from(_, _, _)
chain_from(nm, i, fuel) ==
    IF fuel = 0 \/ i \notin DOMAIN nm THEN <<>>
    ELSE <<i>> \o chain_from(nm, nm[i], fuel - 1)

ChainOf(st, bin) == chain_from(st.next_member, st.first_member[bin], Len0(st.next_member) + 1)

Range(seq) == {seq[k] : k \in DOMAIN seq}

\* The first found_count entries of the result buffer.
Reported(st) == {st.found_indices_buffer[k] : k \in 0 .. st.found_count - 1}

\* found_indices() can be evaluated: every entry it reads is a sorted index.
Readable(st) ==
    /\ st.found_count <= Len0(st.found_indices_buffer)
    /\ Reported(st) \subseteq DOMAIN original_indices

IsPrefix(a, b) == Len(a) <= Len(b) /\ \A k \in 1 .. Len(a) : a[k] = b[k]

NoRepeat(seq) == \A k, m \in DOMAIN seq : seq[k] = seq[m] => k = m

Calls == Queries \X Radii

\* Two reported points that no single ball holds: at least two searches matched.
TwoCalls ==
    \E i, j \in Reported(Self) :
        \A call \in Calls :
            \/ dist_sq(points[i], call[1]) > call[2] * call[2]
            \/ dist_sq(points[j], call[1]) > call[2] * call[2]

----------------------------------------------------------------------------
(* C1 -- set-union correctness *)

\* C1: after any sequence of searches since construction or the last reset,
\* the set of indices found_indices() returns is exactly the set of original
\* indices of the points that lie within the radius of at least one query.
C1_SetUnion ==
    Ready => /\ Readable(Self)
             /\ Range(found_indices(Self)) = covered

\* Two searches matched points and at least one point lies outside every ball.
C1_Witness ==
    /\ Ready /\ op = "search"
    /\ TwoCalls
    /\ found_count < NPoints

----------------------------------------------------------------------------
(* C2 -- partition of the points between the chains and the result buffer *)

BinsHolding(st, i) == {b \in DOMAIN st.first_member : i \in Range(ChainOf(st, b))}

\* C2: every sorted index is either on the chain of exactly one bin or among
\* the first found_count entries of the result buffer, never both, never neither.
C2_Partition ==
    Ready =>
        \A i \in DOMAIN next_member :
            \/ Cardinality(BinsHolding(Self, i)) = 1 /\ i \notin Reported(Self)
            \/ BinsHolding(Self, i) = {} /\ i \in Reported(Self)

\* A point was removed from a chain that still holds another point.
C2_Witness ==
    /\ Ready /\ op = "search"
    /\ \E b \in DOMAIN first_member, i \in Reported(Self) :
          /\ Len(ChainOf(Self, b)) >= 1
          /\ i \in Range(chain_from(original_next_member, original_first_member[b], NPoints + 1))

----------------------------------------------------------------------------
(* C3 -- no duplicates *)

\* C3: found_indices() never holds a value twice and holds only values of
\* [0, n); once every point lies in some query ball of the session, the
\* returned values are exactly 0 .. n-1.
C3_NoDuplicates ==
    /\ Readable(Self)
    /\ NoRepeat(found_indices(Self))
    /\ Range(found_indices(Self)) \subseteq 0 .. NPoints - 1
    /\ (Ready /\ covered = DOMAIN original_points) =>
           /\ Range(found_indices(Self)) = 0 .. NPoints - 1
           /\ found_count = NPoints

\* Every one of at least two points has been matched.
C3_Witness ==
    /\ Ready /\ op = "search"
    /\ NPoints >= 2
    /\ covered = DOMAIN original_points
    /\ found_count = NPoints

----------------------------------------------------------------------------
(* C4 -- reset restoration *)

\* C4: after a reset, whatever searches came before it, every search returns
\* the same found_indices() sequence and the same found_count() as that
\* search does on the instance right after construction.
C4_ResetRestores ==
    (Ready /\ op = "reset") =>
        \A fresh \in {Fresh}, call \in Calls :
            \A again \in {radius_search(Self, call[1], call[2])},
               first \in {radius_search(fresh, call[1], call[2])} :
                /\ ~again.panic
                /\ Readable(again)
                /\ found_indices(again) = found_indices(first)
                /\ again.found_count = first.found_count

\* A reset after a session that matched two points, where repeating some
\* search matches a point again.
C4_Witness ==
    /\ Ready /\ op = "reset"
    /\ NPoints >= 2
    /\ found_indices_buffer[1] # EMPTY
    /\ \E call \in Calls : radius_search(Self, call[1], call[2]).found_count >= 1

----------------------------------------------------------------------------
(* C5 -- count consistency and bound *)

\* C5: found_count() is the length of found_indices(), it never exceeds n,
\* every entry found_indices() reads is a sorted index, and no search panics
\* on its write to the result buffer.
C5_CountBound ==
    /\ found_count <= NPoints
    /\ Readable(Self)
    /\ Len(found_indices(Self)) = found_count
    /\ op = "search" => status # "Panicked"

\* The buffer is full: the last write went to position n-1.
C5_Witness ==
    /\ Ready /\ op = "search"
    /\ NPoints >= 2
    /\ found_count = NPoints

----------------------------------------------------------------------------
(* C6 -- append-only accumulation *)

\* C6: a radius_search step keeps the reported entries and only appends to
\* them, and found_count decreases only in a reset step, which sets it to 0.
C6_AppendOnly ==
    [][/\ op' = "search" =>
            /\ found_count' >= found_count
            /\ \A k \in 0 .. found_count - 1 :
                   found_indices_buffer'[k] = found_indices_buffer[k]
            /\ IsPrefix(found_indices(Self), found_indices(Self)')
       /\ found_count' < found_count => op' = "reset" /\ found_count' = 0]_vars

\* A search appended to a result that already held an entry.
C6_Witness ==
    /\ Ready /\ op = "search"
    /\ found_count = 3
    /\ TwoCalls

----------------------------------------------------------------------------
(* C7 -- the state after new() and after reset() *)

\* C7: right after construction and right after every reset the lists equal
\* the snapshot, which holds the lists construction built, found_count is 0
\* and found_indices() is empty.
C7_PostReset ==
    (Ready /\ op \in {"new", "reset"}) =>
        /\ first_member = original_first_member
        /\ next_member = original_next_member
        /\ original_first_member = Constructed.first_member
        /\ original_next_member = Constructed.next_member
        /\ found_count = 0
        /\ found_indices(Self) = <<>>

\* A reset that followed a search which had matched a point.
C7_Witness ==
    /\ Ready /\ op = "reset"
    /\ NPoints >= 1
    /\ found_indices_buffer[0] # EMPTY

----------------------------------------------------------------------------
(* C8 -- reset is idempotent *)

\* C8: in every reachable state a second reset changes nothing of what the
\* first one left: lists, snapshot, buffer, count and found_indices().
C8_ResetIdempotent ==
    Ready =>
        /\ reset(reset(Self)) = reset(Self)
        /\ found_indices(reset(reset(Self))) = found_indices(reset(Self))

\* A state with removed points, in which reset has something to restore.
C8_Witness ==
    /\ Ready /\ op = "search"
    /\ found_count >= 1
    /\ reset(Self) # Self

----------------------------------------------------------------------------
(* C9 -- the boundary is inside the ball *)

Linked(st, i) == st.next_member[i] # REMOVED

\* C9: a search removes and reports every linked point whose squared distance
\* to the query equals the squared radius.
C9_Boundary ==
    Ready =>
        \A call \in Calls :
            LET after == radius_search(Self, call[1], call[2])
            IN \A i \in DOMAIN points :
                   (Linked(Self, i) /\ dist_sq(points[i], call[1]) = call[2] * call[2]) =>
                       /\ ~Linked(after, i)
                       /\ i \in Reported(after)

\* A linked point lies at distance exactly 1 from some query of radius 1,
\* and the search with that query removes it.
C9_Witness ==
    /\ Ready
    /\ \E q \in Queries, i \in DOMAIN points :
          /\ Linked(Self, i)
          /\ dist_sq(points[i], q) = 1
          /\ ~Linked(radius_search(Self, q, 1), i)

----------------------------------------------------------------------------
(* C10 -- construction of well-shaped input *)

WellShaped ==
    /\ ncols = 3
    /\ Len0(bin_widths) = 3
    /\ \A j \in DOMAIN bin_widths : bin_widths[j] > 0

\* C10: new() on a matrix with 3 columns and any number of rows, and 3
\* positive bin widths, returns an instance.
C10_ConstructNeverFails ==
    (op = "new" /\ WellShaped) => status = "Ready"

----------------------------------------------------------------------------
(* Calls with malformed shapes *)

MaxPointsShape == 2 \* at most this many rows when the shapes vary

\* The column counts, widths lengths and query lengths drawn: 3 and its neighbours.
ShapeLens == {2, 3, 4}

BadQueries == UNION {Vec(len, Coords) : len \in ShapeLens \ {3}}

InitShape ==
    /\ \E c \in ShapeLens, w \in ShapeLens : Args(MaxPointsShape, c, w)
    /\ twin = <<>>

NextShape ==
    \/ New
    \/ \E q \in Queries \cup BadQueries, radius \in Radii : RadiusSearch(q, radius)
    \/ Reset

SpecShape == InitShape /\ [][NextShape]_vars

\* No instance exists: no field of it was ever assigned.
NoInstance ==
    /\ points = <<>>
    /\ origin = <<>>
    /\ original_indices = <<>>
    /\ bin_shape = <<>>
    /\ first_member = <<>>
    /\ next_member = <<>>
    /\ original_first_member = <<>>
    /\ original_next_member = <<>>
    /\ found_indices_buffer = <<>>

----------------------------------------------------------------------------
(* C11 -- query of the wrong length *)

\* C11: radius_search with a query that does not have exactly 3 entries fails,
\* and it fails before any mutation: the heads, the next links, the result
\* buffer and found_count are the same after the failed call as before it.
C11_BadQueryFails ==
    Ready =>
        \A q \in BadQueries, radius \in Radii :
            \A after \in {radius_search(Self, q, radius)} :
                /\ after.panic
                /\ after.first_member = first_member
                /\ after.next_member = next_member
                /\ after.found_indices_buffer = found_indices_buffer
                /\ after.found_count = found_count

\* A search has failed on an instance whose lists earlier searches had changed.
C11_Witness ==
    /\ status = "Panicked"
    /\ op = "search"
    /\ found_count >= 1
    /\ first_member # original_first_member

----------------------------------------------------------------------------
(* C12 -- construction from malformed shapes *)

\* C12: new() fails and returns no instance whenever the point matrix does not
\* have exactly 3 columns or the bin widths do not have exactly 3 entries.
C12_BadShapeFails ==
    (op = "new" /\ (ncols # 3 \/ Len0(bin_widths) # 3)) =>
        /\ status = "Panicked"
        /\ NoInstance

\* new() has failed on a matrix that has rows and 3 columns, for the length
\* of its bin widths alone.
C12_Witness ==
    /\ status = "Panicked"
    /\ op = "new"
    /\ NPoints >= 1
    /\ ncols = 3
    /\ Len0(bin_widths) = 4

----------------------------------------------------------------------------
(* C13 -- order of the results of one search *)

\* The bin of the point at sorted index i.
BinOfSorted(i) == [j \in Axes |-> bin_coord(points[i][j], origin[j], bin_widths[j])]

\* Bin a is visited before bin b: axis 0 outermost, then axis 1, then axis 2.
VisitedBefore(a, b) ==
    \/ a[0] < b[0]
    \/ a[0] = b[0] /\ a[1] < b[1]
    \/ a[0] = b[0] /\ a[1] = b[1] /\ a[2] < b[2]

\* C13: the entries one radius_search appends are in bin-visitation order
\* (axis 0 outermost, then axis 1, then axis 2, each ascending), and the
\* entries of one bin are in descending sorted index.
C13_ResultOrder ==
    [][(op' = "search" /\ status' = "Ready") =>
          \A k \in found_count .. found_count' - 2 :
              LET a == found_indices_buffer'[k]
                  b == found_indices_buffer'[k + 1]
              IN \/ VisitedBefore(BinOfSorted(a), BinOfSorted(b))
                 \/ BinOfSorted(a) = BinOfSorted(b) /\ a > b]_vars

\* One search on a fresh instance reports three points of two bins, and the
\* original indices it returns neither ascend nor descend.
C13_Witness ==
    /\ Ready
    /\ found_count = 0
    /\ \E call \in Calls :
          LET f == found_indices(radius_search(Self, call[1], call[2]))
          IN /\ Len(f) = 3
             /\ f[1] > f[2]
             /\ f[2] < f[3]

----------------------------------------------------------------------------
(* C14 -- query outside the grid *)

\* The box [q - radius, q + radius] misses the extent of the grid on axis j.
OutsideOnAxis(q, radius, j) ==
    \/ q[j] + radius < origin[j]
    \/ q[j] - radius >= origin[j] + bin_shape[j] * bin_widths[j]

\* The bins the three nested loops of a search reach.
BinsVisited(q, radius) ==
    {b \in DOMAIN first_member :
        \A j \in Axes : /\ min_bin_of(Self, q, radius)[j] <= b[j + 1]
                        /\ b[j + 1] <= max_bin_of(Self, q, radius)[j]}

\* C14: when the box [q - radius, q + radius] lies entirely outside the grid
\* on some axis, the clamped bin range has min > max on that axis, the search
\* visits no bin, and it leaves the heads, the next links, the result buffer
\* and found_count unchanged.
C14_OutOfGridNoOp ==
    Ready =>
        \A call \in Calls, j \in Axes :
            OutsideOnAxis(call[1], call[2], j) =>
                /\ min_bin_of(Self, call[1], call[2])[j] > max_bin_of(Self, call[1], call[2])[j]
                /\ BinsVisited(call[1], call[2]) = {}
                /\ radius_search(Self, call[1], call[2]) = Self

\* After earlier searches found points, one query box lies below the grid and
\* another lies above it, and the search with either changes nothing.
C14_Witness ==
    /\ Ready
    /\ found_count >= 1
    /\ \E below, above \in Calls, j, k \in Axes :
          /\ below[1][j] + below[2] < origin[j]
          /\ above[1][k] - above[2] >= origin[k] + bin_shape[k] * bin_widths[k]
          /\ radius_search(Self, below[1], below[2]) = Self
          /\ radius_search(Self, above[1], above[2]) = Self

----------------------------------------------------------------------------
(* C15 -- two instances built from the same rows in different orders *)

Perms(n) == {p \in [0 .. n - 1 -> 0 .. n - 1] : \A a, b \in 0 .. n - 1 : p[a] = p[b] => a = b}

\* The twin takes the rows in any order; both instances then get the same calls.
InitPair ==
    /\ Args(MaxPoints, 3, 3)
    /\ FewOrUniform
    /\ \E p \in Perms(Len0(original_points)) : twin = [perm |-> p, inst |-> <<>>]

NextPair ==
    \/ New
    \/ \E q \in Queries, radius \in Radii : RadiusSearch(q, radius)

SpecPair == InitPair /\ [][NextPair]_vars

\* The original indices the twin returns, as rows of the first instance.
TwinFound == {twin.perm[k] : k \in Range(found_indices(twin.inst))}

\* C15: two instances built from the same points with the rows permuted and
\* the same bin widths match the same set of points under the same sequence
\* of (query, radius) calls: the returned original indices correspond under
\* the row permutation.
C15_OrderIndependent ==
    status # "Unbuilt" =>
        /\ twin.inst.panic = (status = "Panicked")
        /\ Ready => TwinFound = Range(found_indices(Self))

\* Two searches have matched points on both instances, whose sorted buffers
\* differ: two rows of one bin were swapped.
C15_Witness ==
    /\ Ready
    /\ TwoCalls
    /\ twin.inst.points # points
    /\ twin.inst.found_indices_buffer # found_indices_buffer

----------------------------------------------------------------------------
(* C16 -- data that no call changes *)

\* C16: no radius_search or reset on an instance changes the original point
\* buffer, the sorted point buffer, the sorted-to-original permutation, the
\* origin, the bin widths, the bin shape, or the snapshots of the heads and of
\* the next links.
C16_Immutable ==
    [][status = "Ready" =>
          /\ original_points' = original_points
          /\ points' = points
          /\ original_indices' = original_indices
          /\ origin' = origin
          /\ bin_widths' = bin_widths
          /\ bin_shape' = bin_shape
          /\ original_first_member' = original_first_member
          /\ original_next_member' = original_next_member]_vars

\* A search has matched a point after an earlier reset, which left a stale
\* entry in the result buffer; the snapshot still holds the constructed lists.
C16_Witness ==
    /\ Ready
    /\ op = "search"
    /\ found_count >= 1
    /\ \E k \in DOMAIN found_indices_buffer :
          k >= found_count /\ found_indices_buffer[k] # EMPTY
    /\ first_member # original_first_member
    /\ original_first_member = Constructed.first_member

----------------------------------------------------------------------------
(* C17 -- bounds of the grid *)

\* v is the least / the greatest member of the set S.
IsMin(v, S) == v \in S /\ \A x \in S : v <= x
IsMax(v, S) == v \in S /\ \A x \in S : v >= x

\* The bin coordinate of original row i on axis j.
BinCoordOf(i, j) == bin_coord(original_points[i][j], origin[j], bin_widths[j])

\* C17: after construction with positive bin widths, origin is the per-axis
\* minimum of the points, bin_shape[j] is the greatest bin coordinate on axis
\* j plus one, and the bin coordinate of every point on every axis lies in
\* 0 .. bin_shape[j] - 1; so construction indexes the heads in range and
\* completes, and the clamped bin range of every search stays in range.
C17_GridBounds ==
    (status # "Unbuilt" /\ WellShaped /\ NPoints >= 1) =>
        /\ Ready
        /\ \A j \in Axes :
              /\ IsMin(origin[j], {original_points[i][j] : i \in DOMAIN original_points})
              /\ IsMax(bin_shape[j] - 1, {BinCoordOf(i, j) : i \in DOMAIN original_points})
              /\ \A i \in DOMAIN original_points :
                    0 <= BinCoordOf(i, j) /\ BinCoordOf(i, j) <= bin_shape[j] - 1
        /\ \A i \in DOMAIN original_points :
              <<BinCoordOf(i, 0), BinCoordOf(i, 1), BinCoordOf(i, 2)>> \in DOMAIN first_member
        /\ \A call \in Calls, j \in Axes :
              /\ min_bin_of(Self, call[1], call[2])[j] >= 0
              /\ max_bin_of(Self, call[1], call[2])[j] <= bin_shape[j] - 1

\* An instance was constructed from three rows, the first of which holds
\* neither the minimum nor the greatest bin of some axis, on a grid with more
\* than one bin and an origin away from zero.
C17_Witness ==
    /\ Ready
    /\ op = "new"
    /\ NPoints = 3
    /\ \E j \in Axes : original_points[0][j] # origin[j]
    /\ \E j \in Axes : BinCoordOf(0, j) # bin_shape[j] - 1
    /\ \E j \in Axes : origin[j] > 0

----------------------------------------------------------------------------
(* C18 -- the sorted-to-original index map *)

\* C18: original_indices is a bijection on 0 .. n - 1: every original index
\* appears exactly once, and row i of the sorted point buffer equals the
\* original row at the mapped index.
C18_Permutation ==
    Ready =>
        /\ DOMAIN original_indices = 0 .. NPoints - 1
        /\ DOMAIN points = 0 .. NPoints - 1
        /\ \A r \in 0 .. NPoints - 1 :
              Cardinality({i \in DOMAIN original_indices : original_indices[i] = r}) = 1
        /\ \A i \in DOMAIN points : points[i] = original_points[original_indices[i]]

\* The sort moved three rows of three bins around a cycle, and a search has
\* reported a point by its original index.
C18_Witness ==
    /\ Ready
    /\ found_count >= 1
    /\ \E i \in DOMAIN original_indices :
          /\ original_indices[i] # i
          /\ original_indices[original_indices[i]] # i

----------------------------------------------------------------------------
(* C19 -- stable sort by bin key *)

\* The row-major bin key of the point at sorted index i.
KeyOfSorted(i) ==
    BinOfSorted(i)[0] * bin_shape[1] * bin_shape[2] + BinOfSorted(i)[1] * bin_shape[2]
        + BinOfSorted(i)[2]

\* C19: in sorted order the row-major bin keys are non-decreasing, and two
\* points with the same key are in the same relative order as in the input.
C19_StableSort ==
    Ready =>
        \A i, k \in DOMAIN points :
            i < k =>
                /\ KeyOfSorted(i) <= KeyOfSorted(k)
                /\ KeyOfSorted(i) = KeyOfSorted(k) => original_indices[i] < original_indices[k]

\* Three rows were sorted: two of one bin, which kept their input order, and
\* between them in the input a row of an earlier bin, which moved to the front.
C19_Witness ==
    /\ Ready
    /\ NPoints = 3
    /\ KeyOfSorted(0) < KeyOfSorted(1)
    /\ KeyOfSorted(1) = KeyOfSorted(2)
    /\ original_indices = (0 :> 1) @@ (1 :> 0) @@ (2 :> 2)

----------------------------------------------------------------------------
(* C20 -- termination of the chain walks *)

\* Following next from i reaches the end-of-chain sentinel within fuel nodes,
\* each of them a sorted index.
RECURSIVE chain_ends(_, _, _)
chain_ends(nm, i, fuel) ==
    IF i = EMPTY THEN TRUE
    ELSE IF fuel = 0 \/ i \notin DOMAIN nm THEN FALSE
    ELSE chain_ends(nm, nm[i], fuel - 1)

\* C20: in every reachable state the walk of every chain ends: from the head
\* of each bin, next reaches the end-of-chain sentinel within n nodes, so no
\* chain contains a cycle or leads into a tombstone; the same holds for the
\* chains that reset restores.
C20_ChainsEnd ==
    Ready =>
        \A b \in DOMAIN first_member :
            /\ chain_ends(next_member, first_member[b], NPoints)
            /\ \A i \in Range(ChainOf(Self, b)) : Linked(Self, i)
            /\ chain_ends(original_next_member, original_first_member[b], NPoints)

\* A search has removed the head of a chain of three and left the rest of it
\* linked.
C20_Witness ==
    /\ Ready
    /\ op = "search"
    /\ \E b \in DOMAIN first_member :
          /\ Len(ChainOf(Fresh, b)) = 3
          /\ Len(ChainOf(Self, b)) = 2
          /\ first_member[b] # original_first_member[b]

----------------------------------------------------------------------------
(* C21 -- the chains new() builds *)

\* The sorted indices of the points whose bin is b.
MembersOf(b) == {i \in DOMAIN points : <<BinOfSorted(i)[0], BinOfSorted(i)[1], BinOfSorted(i)[2]>> = b}

StrictlyDescending(seq) == \A k \in 1 .. Len(seq) - 1 : seq[k] > seq[k + 1]

\* C21: right after construction the chain of each bin holds exactly the
\* sorted indices of the points of that bin, each once, and the traversal from
\* the head meets them in strictly descending sorted index; a bin without
\* points has the empty sentinel as its head.
C21_ChainConstruction ==
    (Ready /\ op = "new") =>
        \A b \in DOMAIN first_member :
            /\ Range(ChainOf(Self, b)) = MembersOf(b)
            /\ Len(ChainOf(Self, b)) = Cardinality(MembersOf(b))
            /\ StrictlyDescending(ChainOf(Self, b))
            /\ chain_ends(next_member, first_member[b], NPoints)
            /\ MembersOf(b) = {} => first_member[b] = EMPTY

\* new() has built a grid with a chain of two points, a chain of one point
\* and an empty bin.
C21_Witness ==
    /\ Ready
    /\ op = "new"
    /\ \E a, b, c \in DOMAIN first_member :
          /\ Len(ChainOf(Self, a)) = 2
          /\ Len(ChainOf(Self, b)) = 1
          /\ first_member[c] = EMPTY

----------------------------------------------------------------------------
(* C22 -- each point is visited at most once *)

\* C22: within one radius_search each point is distance-tested at most once,
\* and a point an earlier call removed is not tested by any later call before
\* the next reset: every point a call tests was linked when the call began.
C22_VisitOnce ==
    Ready =>
        \A call \in Calls :
            \A after \in {radius_search(Self, call[1], call[2])} :
                /\ NoRepeat(after.tested)
                /\ \A i \in Range(after.tested) : i \in DOMAIN next_member /\ Linked(Self, i)

\* After an earlier call removed a point of a chain, a call walks that chain:
\* it tests two points, removes one of them, and never tests the removed one.
C22_Witness ==
    /\ Ready
    /\ op = "search"
    /\ \E call \in Calls, b \in DOMAIN first_member :
          LET after == radius_search(Self, call[1], call[2])
          IN /\ Len(ChainOf(Fresh, b)) = 3
             /\ Len(ChainOf(Self, b)) = 2
             /\ Len(after.tested) = 2
             /\ after.found_count = found_count + 1
             /\ Reported(Self) \cap Range(after.tested) = {}

----------------------------------------------------------------------------
(* C23 -- what an unlink leaves of a chain *)

\* The chain of bin b in the snapshot.
SnapshotChain(b) == chain_from(original_next_member, original_first_member[b], NPoints + 1)

\* seq without the sorted indices reported since the last reset.
Retained(seq) == SelectSeq(seq, LAMBDA i : i \notin Reported(Self))

\* C23: after any sequence of searches since the last reset, the chain of
\* every bin is that bin's snapshot chain with the removed points deleted, the
\* retained points in their snapshot order.
C23_UnlinkPreserves ==
    Ready =>
        \A b \in DOMAIN first_member : ChainOf(Self, b) = Retained(SnapshotChain(b))

\* The middle node of a chain of three was removed: the chain is its former
\* head followed by its former tail.
C23_Witness ==
    /\ Ready
    /\ op = "search"
    /\ \E b \in DOMAIN first_member :
          /\ Len(SnapshotChain(b)) = 3
          /\ ChainOf(Self, b) = <<SnapshotChain(b)[1], SnapshotChain(b)[3]>>

----------------------------------------------------------------------------
(* C24 -- tombstones *)

\* C24: in every reachable state next_member[i] is the tombstone exactly when
\* sorted index i is among the first found_count entries of the result
\* buffer, and no head and no next link of a linked point refers to a
\* tombstoned point.
C24_Tombstones ==
    Ready =>
        /\ \A i \in DOMAIN next_member : (next_member[i] = REMOVED) <=> (i \in Reported(Self))
        /\ \A b \in DOMAIN first_member :
              first_member[b] \in DOMAIN next_member => Linked(Self, first_member[b])
        /\ \A i \in DOMAIN next_member :
              (Linked(Self, i) /\ next_member[i] \in DOMAIN next_member) =>
                  Linked(Self, next_member[i])

\* After a reset, a search has tombstoned one point of a chain of three; the
\* other two are linked to each other, and one of them is still in the result
\* buffer beyond found_count, left there by the searches before the reset.
C24_Witness ==
    /\ Ready
    /\ op = "search"
    /\ \E i, j \in DOMAIN next_member :
          /\ next_member[i] = REMOVED
          /\ next_member[j] \in DOMAIN next_member
    /\ \E k \in DOMAIN found_indices_buffer :
          /\ k >= found_count
          /\ found_indices_buffer[k] \in DOMAIN next_member
          /\ Linked(Self, found_indices_buffer[k])

----------------------------------------------------------------------------
(* C25 -- the same search twice *)

\* C25: in any reachable state, the same radius_search(query, radius) issued
\* twice in a row without a reset leaves the heads, the next links, the
\* reported results and found_count as they were after the first of the two
\* calls.
C25_RepeatIdempotent ==
    Ready =>
        \A call \in Calls :
            \A once \in {radius_search(Self, call[1], call[2])} :
                \A twice \in {radius_search(once, call[1], call[2])} :
                    /\ ~twice.panic
                    /\ twice.first_member = once.first_member
                    /\ twice.next_member = once.next_member
                    /\ twice.found_count = once.found_count
                    /\ found_indices(twice) = found_indices(once)

\* After earlier searches and a reset, which left stale entries in the result
\* buffer, a search matches two points and leaves a third; the same search
\* again tests the third and matches nothing.
C25_Witness ==
    /\ Ready
    /\ op = "reset"
    /\ found_indices_buffer[0] # EMPTY
    /\ \E call \in Calls :
          LET once == radius_search(Self, call[1], call[2])
              twice == radius_search(once, call[1], call[2])
          IN /\ once.found_count = 2
             /\ Len(once.tested) >= 2
             /\ Len(twice.tested) >= 1
             /\ twice.found_count = once.found_count

====
